---- MODULE Spec2Model ----
(***************************************************************************)
(* Model of src/xml2md.py: the call-graph index built by                   *)
(* load_analysis_graph, the neighbourhood queries of AnalysisGraph and the *)
(* bounded, cycle-aware tree renderer _render_tree of xml_to_markdown.     *)
(*                                                                         *)
(* Python dicts are functions whose DOMAIN is the key set, Python lists    *)
(* are sequences, Python sets are sets.  Strings are opaque tokens; the    *)
(* two string operations the code relies on (the "func_" prefix test and   *)
(* the lexicographic sort of ids) are given as tables over the ids of the  *)
(* model.                                                                  *)
(***************************************************************************)
EXTENDS Integers, Sequences, FiniteSets, TLC

VARIABLES
    data,          \* the parsed JSON list handed to load_analysis_graph
    pc,            \* "init" | "loaded" | "render" | "done"
    id_to_entry,   \* AnalysisGraph.id_to_entry
    name_to_ids,   \* AnalysisGraph.name_to_ids
    calls_map,     \* AnalysisGraph.calls_map
    callers_map,   \* AnalysisGraph.callers_map
    query,         \* the last neighbourhood query and what it returned
    start_ids,     \* _render_tree: start_ids
    direction,     \* _render_tree: direction
    max_depth,     \* _render_tree: max_depth
    max_children,  \* _render_tree: max_children
    roots,         \* _render_tree: the (sid, cid) pairs the outer loops still have to visit
    cur_root,      \* the sid whose subtree is being rendered
    frames,        \* the active dfs calls that are inside their for loop, innermost last
    stack,         \* dfs: the path stack (the list object shared by one root's calls)
    out            \* _render_tree: out

vars == <<data, pc, id_to_entry, name_to_ids, calls_map, callers_map, query,
          start_ids, direction, max_depth, max_children, roots, cur_root,
          frames, stack, out>>

indexVars == <<id_to_entry, name_to_ids, calls_map, callers_map>>
renderVars == <<start_ids, direction, max_depth, max_children, roots, cur_root,
                frames, stack, out>>

-----------------------------------------------------------------------------
(* Bounds of the model *)

\* longest input list of the ingestion specification
MaxRecords == 3
\* largest max_depth a render is started with
MaxDepthBound == 2
\* largest max_children a render is started with
MaxChildrenBound == 2

-----------------------------------------------------------------------------
(* Values *)

\* Python's None (also what dict.get returns for a missing key)
None == "None"

\* ids that pass the "func_" prefix test and can become keys of the index
FuncIds == {"func_a", "func_b", "func_c"}
\* an id that only ever occurs inside a calls list
UnknownId == "func_zz"
\* an id without the "func_" prefix
BadId == "g_a"
\* the empty string
EmptyId == ""

\* every id of the model in the order sorted() puts them
IdOrder == <<"func_a", "func_b", "func_c", "func_zz", "g_a">>

Names == {"n1", "n2"}

\* str(fid).startswith("func_")
StartsWithFunc(fid) == fid \in FuncIds \cup {UnknownId}

\* truthiness of an optional string: None and "" are falsy
Truthy(s) == s # None /\ s # ""

\* sorted(S) for a set of ids
Sorted(S) == SelectSeq(IdOrder, LAMBDA x : x \in S)

\* the set of elements of a sequence
Range(s) == {s[i] : i \in 1..Len(s)}

\* d.get(k, default)
Get(d, k, default) == IF k \in DOMAIN d THEN d[k] ELSE default

\* d[k] = v
Put(d, k, v) == [x \in DOMAIN d \cup {k} |-> IF x = k THEN v ELSE d[x]]

\* the empty dict
EmptyDict == [x \in {} |-> {}]

\* d.setdefault(k, set()).add(v)
SetDefaultAdd(d, k, v) == Put(d, k, Get(d, k, {}) \cup {v})

-----------------------------------------------------------------------------
(* load_analysis_graph *)

\* One element of the JSON list.  isdict is FALSE for an element that is not
\* an object; has_calls is FALSE when the "calls" key is missing.
Item(isdict, type, id, name, file_path, line_start, has_calls, calls) ==
    [isdict |-> isdict, type |-> type, id |-> id, name |-> name,
     file_path |-> file_path, line_start |-> line_start,
     has_calls |-> has_calls, calls |-> calls]

RetainedAnyType(item) ==
    /\ item.isdict
    /\ Truthy(item.id)
    /\ StartsWithFunc(item.id)

\* first pass: the entries that are kept
Retained(item) ==
    /\ item.isdict
    /\ item.type = "func"
    /\ Truthy(item.id)
    /\ StartsWithFunc(item.id)

\* first pass: the entry stored for a kept item
EntryOf(item) ==
    [id |-> item.id, name |-> item.name, file_path |-> item.file_path,
     line_start |-> item.line_start]

\* first pass: the body of the loop for one item
FirstPassItem(acc, item) ==
    IF ~Retained(item) THEN acc
    ELSE [id_to_entry |-> Put(acc.id_to_entry, item.id, EntryOf(item)),
          name_to_ids |-> IF Truthy(item.name)
                          THEN SetDefaultAdd(acc.name_to_ids, item.name, item.id)
                          ELSE acc.name_to_ids]

RECURSIVE FirstPass(_, _, _)
FirstPass(items, i, acc) ==
    IF i > Len(items) THEN acc
    ELSE FirstPass(items, i + 1, FirstPassItem(acc, items[i]))

\* item.get("calls") or []
RawCalls(item) == IF item.has_calls THEN item.calls ELSE <<>>

KnownTargetsUnfiltered(raw_calls, entries) == raw_calls

\* tgt_ids = [c for c in raw_calls if c in id_to_entry]
KnownTargets(raw_calls, entries) ==
    SelectSeq(raw_calls, LAMBDA c : c \in DOMAIN entries)

RECURSIVE AddCallers(_, _, _, _)
\* for t in tgt_ids: callers_map.setdefault(t, set()).add(src_id)
AddCallers(cm, tgt_ids, i, src_id) ==
    IF i > Len(tgt_ids) THEN cm
    ELSE AddCallers(SetDefaultAdd(cm, tgt_ids[i], src_id), tgt_ids, i + 1, src_id)

\* second pass: the body of the loop for one item
SecondPassItem(acc, item, entries) ==
    IF ~item.isdict \/ item.type # "func" THEN acc
    ELSE IF item.id \notin DOMAIN entries THEN acc
    ELSE LET tgt_ids == KnownTargets(RawCalls(item), entries)
         IN  IF tgt_ids = <<>> THEN acc
             ELSE [calls_map |-> Put(acc.calls_map, item.id, Range(tgt_ids)),
                   callers_map |-> AddCallers(acc.callers_map, tgt_ids, 1, item.id)]

RECURSIVE SecondPass(_, _, _, _)
SecondPass(items, i, acc, entries) ==
    IF i > Len(items) THEN acc
    ELSE SecondPass(items, i + 1, SecondPassItem(acc, items[i], entries), entries)

\* the AnalysisGraph load_analysis_graph builds from the list
BuildGraph(items) ==
    LET first == FirstPass(items, 1, [id_to_entry |-> EmptyDict, name_to_ids |-> EmptyDict])
        second == SecondPass(items, 1, [calls_map |-> EmptyDict, callers_map |-> EmptyDict],
                             first.id_to_entry)
    IN  [id_to_entry |-> first.id_to_entry, name_to_ids |-> first.name_to_ids,
         calls_map |-> second.calls_map, callers_map |-> second.callers_map]

NoQuery == [kind |-> "none", arg |-> None, callers |-> <<>>, callees |-> <<>>]

Load ==
    /\ pc = "init"
    /\ LET g == BuildGraph(data)
       IN  /\ id_to_entry' = g.id_to_entry
           /\ name_to_ids' = g.name_to_ids
           /\ calls_map' = g.calls_map
           /\ callers_map' = g.callers_map
    /\ pc' = "loaded"
    /\ UNCHANGED <<data, query>>
    /\ UNCHANGED renderVars

-----------------------------------------------------------------------------
(* AnalysisGraph queries *)

RECURSIVE UnionOver(_, _, _)
\* for fid in ids: acc.update(m.get(fid, ()))
UnionOver(m, ids, acc) ==
    IF ids = {} THEN acc
    ELSE LET fid == CHOOSE x \in ids : TRUE
         IN  UnionOver(m, ids \ {fid}, acc \cup Get(m, fid, {}))

\* id_to_entry.get(cid, {}): the empty dict has no "id"
EmptyEntry == [id |-> None, name |-> None, file_path |-> None, line_start |-> None]

\* [id_to_entry.get(cid, {}) for cid in sorted(S)]
EntriesOf(S) ==
    LET order == Sorted(S)
    IN  [i \in 1..Len(order) |-> Get(id_to_entry, order[i], EmptyEntry)]

NameSelfRefsKept(found, ids) == found

\* by name: callees_ids.difference_update(ids)
NameSelfRefsRemoved(found, ids) == found \ ids

IdSelfRefKept(found, fid) == found

\* by id: if fid in callees_ids: callees_ids.remove(fid)
IdSelfRefRemoved(found, fid) == IF fid \in found THEN found \ {fid} ELSE found

\* AnalysisGraph.get_callers_callees_by_name
GetCallersCalleesByName(func_name) ==
    LET ids == Get(name_to_ids, func_name, {})
        callees_ids == NameSelfRefsRemoved(UnionOver(calls_map, ids, {}), ids)
        callers_ids == NameSelfRefsRemoved(UnionOver(callers_map, ids, {}), ids)
    IN  [callers |-> EntriesOf(callers_ids), callees |-> EntriesOf(callees_ids)]

\* AnalysisGraph.get_callers_callees_by_id
GetCallersCalleesById(fid) ==
    LET callees_ids == IdSelfRefRemoved(Get(calls_map, fid, {}), fid)
        callers_ids == IdSelfRefRemoved(Get(callers_map, fid, {}), fid)
    IN  [callers |-> EntriesOf(callers_ids), callees |-> EntriesOf(callees_ids)]

\* the ids and names a query is made with; "n3" names no function
QueryIds == {"func_a", "func_b", UnknownId}
QueryNames == Names \cup {"n3"}

QueryByName ==
    /\ pc = "loaded"
    /\ \E func_name \in QueryNames :
         LET r == GetCallersCalleesByName(func_name)
         IN  query' = [kind |-> "name", arg |-> func_name,
                       callers |-> r.callers, callees |-> r.callees]
    /\ UNCHANGED <<data, pc>>
    /\ UNCHANGED indexVars
    /\ UNCHANGED renderVars

QueryById ==
    /\ pc = "loaded"
    /\ \E fid \in QueryIds :
         LET r == GetCallersCalleesById(fid)
         IN  query' = [kind |-> "id", arg |-> fid,
                       callers |-> r.callers, callees |-> r.callees]
    /\ UNCHANGED <<data, pc>>
    /\ UNCHANGED indexVars
    /\ UNCHANGED renderVars

-----------------------------------------------------------------------------
(* Ingestion specification: any list of at most MaxRecords items *)

\* function records: two ids, two names, calls into known and unknown ids
FuncItems ==
    {Item(TRUE, "func", id, name, "a.c", "L1", TRUE, calls) :
        id \in {"func_a", "func_b"}, name \in Names,
        calls \in {<<>>, <<"func_a">>, <<"func_b", UnknownId>>}}

\* the other shapes the loops distinguish
OddItems ==
    { Item(FALSE, None, None, None, None, None, FALSE, <<>>),
      Item(TRUE, "var", "func_b", "n1", "a.c", "L1", TRUE, <<"func_a">>),
      Item(TRUE, "func", EmptyId, "n1", "a.c", "L1", TRUE, <<"func_a">>),
      Item(TRUE, "func", BadId, "n1", "a.c", "L1", TRUE, <<"func_a">>),
      Item(TRUE, "func", "func_b", None, "b.c", "L2", FALSE, <<>>) }

Items == FuncItems \cup OddItems

InputLists == UNION {[1..n -> Items] : n \in 0..MaxRecords}

IdleRender ==
    /\ start_ids = {}
    /\ direction = "callees"
    /\ max_depth = 0
    /\ max_children = 0
    /\ roots = <<>>
    /\ cur_root = None
    /\ frames = <<>>
    /\ stack = <<>>
    /\ out = <<>>

EmptyIndex ==
    /\ id_to_entry = EmptyDict
    /\ name_to_ids = EmptyDict
    /\ calls_map = EmptyDict
    /\ callers_map = EmptyDict

Init ==
    /\ data \in InputLists
    /\ pc = "init"
    /\ EmptyIndex
    /\ query = NoQuery
    /\ IdleRender

Next ==
    \/ Load
    \/ QueryByName
    \/ QueryById

Spec == Init /\ [][Next]_vars

-----------------------------------------------------------------------------
(* xml_to_markdown: _entry_link_by_id, _children, _render_tree *)

\* deepest nesting of dfs calls the interpreter allows before it raises
\* RecursionError; the renders of the model stay far below it
RecursionLimit == 6

\* _entry_link_by_id: the display name n = entry.get("name", "") or fid that
\* every form of the label starts with (the link target is not modelled)
EntryLinkById(fid) ==
    LET entry == Get(id_to_entry, fid, EmptyEntry)
    IN  IF Truthy(entry.name) THEN entry.name ELSE fid

\* _children
Children(fid, dir) ==
    IF dir = "callees" THEN Sorted(Get(calls_map, fid, {}))
    ELSE Sorted(Get(callers_map, fid, {}))

\* One appended line of out.  depth is the number of two-space indents, ann
\* is "" | "cycle" (循環) | "depth" (省略), count the number of a
\* "… (他 N 件省略)" line.  root and path do not appear in the text: they
\* record the starting id and the path stack the line was emitted under.
NodeLine(fid, depth, label, ann, root, path) ==
    [kind |-> "node", fid |-> fid, depth |-> depth, label |-> label, ann |-> ann,
     count |-> 0, root |-> root, path |-> path]

MoreLine(depth, count, root, path) ==
    [kind |-> "more", fid |-> None, depth |-> depth, label |-> None, ann |-> "",
     count |-> count, root |-> root, path |-> path]

\* dfs: if fid in stack
OnStack(fid, stk) == fid \in Range(stk)

DepthReachedLate(depth) == depth > max_depth

DepthReachedNever(depth) == FALSE

\* dfs: if depth >= max_depth
DepthReached(depth) == depth >= max_depth

\* dfs: if idx >= max_children
FanOutReached(idx) == idx >= max_children

\* dfs without its two early returns
DfsCallNoCutoffs(fid, depth, stk, frs, o, root) ==
    LET o2 == Append(o, NodeLine(fid, depth, EntryLinkById(fid), "", root, stk))
        ch == Children(fid, direction)
    IN  IF ch = <<>> THEN [out |-> o2, stack |-> stk, frames |-> frs]
        ELSE [out |-> o2, stack |-> Append(stk, fid),
              frames |-> Append(frs, [fid |-> fid, depth |-> depth, ch |-> ch, idx |-> 0])]

\* dfs with its two early returns in the other order
DfsCallDepthFirst(fid, depth, stk, frs, o, root) ==
    LET label == EntryLinkById(fid)
    IN  IF DepthReached(depth)
        THEN [out |-> Append(o, NodeLine(fid, depth, label, "depth", root, stk)),
              stack |-> stk, frames |-> frs]
        ELSE IF OnStack(fid, stk)
        THEN [out |-> Append(o, NodeLine(fid, depth, label, "cycle", root, stk)),
              stack |-> stk, frames |-> frs]
        ELSE DfsCallNoCutoffs(fid, depth, stk, frs, o, root)

\* dfs(fid, depth, stack) from its first line up to the start of its for
\* loop: the lines appended to out, the push, and the new loop frame
DfsCall(fid, depth, stk, frs, o, root) ==
    LET label == EntryLinkById(fid)
    IN  IF OnStack(fid, stk)
        THEN [out |-> Append(o, NodeLine(fid, depth, label, "cycle", root, stk)),
              stack |-> stk, frames |-> frs]
        ELSE IF DepthReached(depth)
        THEN [out |-> Append(o, NodeLine(fid, depth, label, "depth", root, stk)),
              stack |-> stk, frames |-> frs]
        ELSE LET o2 == Append(o, NodeLine(fid, depth, label, "", root, stk))
                 ch == Children(fid, direction)
             IN  IF ch = <<>> THEN [out |-> o2, stack |-> stk, frames |-> frs]
                 ELSE [out |-> o2, stack |-> Append(stk, fid),
                       frames |-> Append(frs, [fid |-> fid, depth |-> depth,
                                               ch |-> ch, idx |-> 0])]

RECURSIVE RootCalls(_, _, _)
\* for sid in sorted(start_ids): for cid in _children(sid, direction)
RootCalls(sids, i, dir) ==
    IF i > Len(sids) THEN <<>>
    ELSE LET ch == Children(sids[i], dir)
         IN  [k \in 1..Len(ch) |-> [sid |-> sids[i], cid |-> ch[k]]]
             \o RootCalls(sids, i + 1, dir)

\* the starting sets xml_to_markdown passes: {func_id}, or name_to_ids[name]
StartSets ==
    {{fid} : fid \in FuncIds \cup {UnknownId}}
        \cup {name_to_ids[n] : n \in DOMAIN name_to_ids}

\* _render_tree is called: out = []
StartRender ==
    /\ pc = "loaded"
    /\ \E s \in StartSets, dir \in {"callees", "callers"},
          d \in 0..MaxDepthBound, k \in 0..MaxChildrenBound :
         /\ start_ids' = s
         /\ direction' = dir
         /\ max_depth' = d
         /\ max_children' = k
         /\ roots' = RootCalls(Sorted(s), 1, dir)
    /\ cur_root' = None
    /\ frames' = <<>>
    /\ stack' = <<>>
    /\ out' = <<>>
    /\ pc' = "render"
    /\ UNCHANGED <<data, query>>
    /\ UNCHANGED indexVars

\* the outer loops call dfs(cid, 0, [])
RootCall ==
    /\ pc = "render"
    /\ frames = <<>>
    /\ roots # <<>>
    /\ LET r == Head(roots)
           res == DfsCall(r.cid, 0, <<>>, <<>>, out, r.sid)
       IN  /\ out' = res.out
           /\ stack' = res.stack
           /\ frames' = res.frames
           /\ cur_root' = r.sid
    /\ roots' = Tail(roots)
    /\ UNCHANGED <<data, pc, query, start_ids, direction, max_depth, max_children>>
    /\ UNCHANGED indexVars

Top == frames[Len(frames)]

Pop(s) == SubSeq(s, 1, Len(s) - 1)

\* the for loop of the innermost dfs calls dfs(cid, depth + 1, stack)
LoopCall ==
    /\ pc = "render"
    /\ frames # <<>>
    /\ Top.idx < Len(Top.ch)
    /\ ~FanOutReached(Top.idx)
    /\ Len(frames) < RecursionLimit
    /\ LET frs == [frames EXCEPT ![Len(frames)].idx = @ + 1]
           res == DfsCall(Top.ch[Top.idx + 1], Top.depth + 1, stack, frs, out, cur_root)
       IN  /\ out' = res.out
           /\ stack' = res.stack
           /\ frames' = res.frames
    /\ UNCHANGED <<data, pc, query, start_ids, direction, max_depth, max_children,
                   roots, cur_root>>
    /\ UNCHANGED indexVars

\* the summary line followed by a return that skips stack.pop()
LoopOmitNoPop ==
    /\ pc = "render"
    /\ frames # <<>>
    /\ Top.idx < Len(Top.ch)
    /\ FanOutReached(Top.idx)
    /\ out' = Append(out, MoreLine(Top.depth + 1, Len(Top.ch) - max_children,
                                   cur_root, stack))
    /\ frames' = Pop(frames)
    /\ UNCHANGED <<data, pc, query, start_ids, direction, max_depth, max_children,
                   roots, cur_root, stack>>
    /\ UNCHANGED indexVars

\* the for loop reaches idx >= max_children: the summary line, break, stack.pop()
LoopOmit ==
    /\ pc = "render"
    /\ frames # <<>>
    /\ Top.idx < Len(Top.ch)
    /\ FanOutReached(Top.idx)
    /\ out' = Append(out, MoreLine(Top.depth + 1, Len(Top.ch) - max_children,
                                   cur_root, stack))
    /\ stack' = Pop(stack)
    /\ frames' = Pop(frames)
    /\ UNCHANGED <<data, pc, query, start_ids, direction, max_depth, max_children,
                   roots, cur_root>>
    /\ UNCHANGED indexVars

\* the for loop is exhausted: stack.pop() and the dfs call returns
LoopEnd ==
    /\ pc = "render"
    /\ frames # <<>>
    /\ Top.idx >= Len(Top.ch)
    /\ stack' = Pop(stack)
    /\ frames' = Pop(frames)
    /\ UNCHANGED <<data, pc, query, start_ids, direction, max_depth, max_children,
                   roots, cur_root, out>>
    /\ UNCHANGED indexVars

\* return out
RenderReturn ==
    /\ pc = "render"
    /\ frames = <<>>
    /\ roots = <<>>
    /\ pc' = "done"
    /\ UNCHANGED <<data, query>>
    /\ UNCHANGED indexVars
    /\ UNCHANGED renderVars

-----------------------------------------------------------------------------
(* Render specification: every call graph over FuncIds, one record per id *)

\* every list of distinct known callees, in sorted order
CallLists == {Sorted(S) : S \in SUBSET FuncIds}

\* func_a and func_b share the name n1
GraphLists ==
    {<<Item(TRUE, "func", "func_a", "n1", "a.c", "L1", TRUE, ca),
       Item(TRUE, "func", "func_b", "n1", "a.c", "L2", TRUE, cb),
       Item(TRUE, "func", "func_c", "n2", "b.c", "L1", TRUE, cc)>> :
        ca \in CallLists, cb \in CallLists, cc \in CallLists}

RenderInit ==
    /\ data \in GraphLists
    /\ pc = "init"
    /\ EmptyIndex
    /\ query = NoQuery
    /\ IdleRender

RenderNext ==
    \/ Load
    \/ StartRender
    \/ RootCall
    \/ LoopCall
    \/ LoopOmit
    \/ LoopEnd
    \/ RenderReturn

RenderSpec == RenderInit /\ [][RenderNext]_vars

\* the steps of a render that is under way
RenderStep == RootCall \/ LoopCall \/ LoopOmit \/ LoopEnd \/ RenderReturn

\* the interpreter runs a started render on, statement by statement: the
\* render is single-threaded and synchronous and nothing can suspend it
LiveRenderSpec == RenderInit /\ [][RenderNext]_vars /\ WF_vars(RenderStep)

-----------------------------------------------------------------------------
(* Helpers of the properties *)

AllIds == Range(IdOrder) \cup {EmptyId, None}

Loaded == pc # "init"

\* the index of the last record of the input that the first pass keeps under id
LastIndex(id) ==
    CHOOSE i \in 1..Len(data) :
        /\ Retained(data[i]) /\ data[i].id = id
        /\ \A j \in (i + 1)..Len(data) : ~(Retained(data[j]) /\ data[j].id = id)

\* an id that several kept records carry
Duplicated(id) ==
    \E i, j \in 1..Len(data) :
        i < j /\ Retained(data[i]) /\ Retained(data[j]) /\ data[i].id = id /\ data[j].id = id

\* ids that occur inside some calls list and are the id of no record
OnlyInCalls ==
    UNION {Range(data[i].calls) : i \in 1..Len(data)} \ {data[i].id : i \in 1..Len(data)}

\* the ids of the entries a query returned
ReturnedIds(list) == {list[i].id : i \in 1..Len(list)}

\* the neighbours of v in the direction of the render
Nbrs(v) == Range(Children(v, direction))

\* the lines of out emitted under starting id root with path stack path
LinesUnder(root, path) ==
    SelectSeq(out, LAMBDA l : l.root = root /\ l.path = path)

\* the first n elements of a sequence
FirstN(s, n) == SubSeq(s, 1, IF n < Len(s) THEN n ELSE Len(s))

\* lines is the first max_children of ch as node lines, then one summary
\* line counting the rest
CappedAt(lines, ch) ==
    /\ Len(lines) = max_children + 1
    /\ \A i \in 1..max_children : lines[i].kind = "node" /\ lines[i].fid = ch[i]
    /\ lines[max_children + 1].kind = "more"
    /\ lines[max_children + 1].count = Len(ch) - max_children

\* the ids of seq are consecutive neighbours in the direction of the render
IsPath(seq) == \A i \in 1..(Len(seq) - 1) : seq[i + 1] \in Nbrs(seq[i])

RECURSIVE WalkEnds(_, _)
\* the ids a walk of exactly n edges from v ends at
WalkEnds(v, n) ==
    IF n = 0 THEN {v} ELSE UNION {WalkEnds(w, n - 1) : w \in Nbrs(v)}

RECURSIVE SimplePathFrom(_, _, _)
\* a path of n edges leaves v that repeats no id and avoids those of seen
SimplePathFrom(v, seen, n) ==
    \/ n = 0
    \/ \E w \in Nbrs(v) \ seen : SimplePathFrom(w, seen \cup {w}, n - 1)

\* some starting id has a simple path of more than max_depth edges
LongPath == \E s \in start_ids : SimplePathFrom(s, {s}, max_depth + 1)

DepthLineEmitted == \E i \in 1..Len(out) : out[i].ann = "depth"

-----------------------------------------------------------------------------
(* Properties of the built index (specification Spec) *)

\* C1: in the built index, for all ids f and g, g is in callers_map[f] if and
\* only if f is in calls_map[g], whatever the input list, lists in which one
\* id occurs in several records included.
TransposeConsistent ==
    Loaded =>
        \A f \in AllIds, g \in AllIds :
            g \in Get(callers_map, f, {}) <=> f \in Get(calls_map, g, {})

\* C8: when several function records carry the same id, the index holds for
\* that id the entry fields and the call set of the last such record only:
\* calls_map[id] is that record's known callees (absent when it has none) and
\* no callers_map set contains id because of an earlier record's calls.
DuplicateLastWins ==
    Loaded =>
        \A id \in DOMAIN id_to_entry :
            LET last == data[LastIndex(id)]
                t == Range(SelectSeq(RawCalls(last), LAMBDA c : c \in DOMAIN id_to_entry))
            IN  /\ id_to_entry[id] = EntryOf(last)
                /\ t = {} => id \notin DOMAIN calls_map
                /\ t # {} => id \in DOMAIN calls_map /\ calls_map[id] = t
                /\ \A g \in DOMAIN callers_map : id \in callers_map[g] => g \in t

\* C9: every member of every calls_map value and every key and member of
\* callers_map is a key of id_to_entry, and an id that occurs only inside
\* calls lists is neither a key nor a member of calls_map or callers_map.
UnknownTargetsFiltered ==
    Loaded =>
        /\ \A k \in DOMAIN calls_map : calls_map[k] \subseteq DOMAIN id_to_entry
        /\ DOMAIN callers_map \subseteq DOMAIN id_to_entry
        /\ \A k \in DOMAIN callers_map : callers_map[k] \subseteq DOMAIN id_to_entry
        /\ \A u \in OnlyInCalls :
              /\ u \notin DOMAIN calls_map
              /\ u \notin DOMAIN callers_map
              /\ \A k \in DOMAIN calls_map : u \notin calls_map[k]
              /\ \A k \in DOMAIN callers_map : u \notin callers_map[k]

\* C9 witness: a kept record calls an unknown id beside a known one and got
\* its calls_map entry.
UnknownTargetDropped ==
    /\ pc = "loaded"
    /\ \E i \in 1..Len(data) :
         /\ Retained(data[i])
         /\ UnknownId \in Range(RawCalls(data[i]))
         /\ data[i].id \in DOMAIN calls_map
         /\ UnknownId \in OnlyInCalls

\* C10: a query by id returns no entry whose id is the queried id, a query by
\* name returns, among callers and among callees, no entry whose id belongs to
\* name_to_ids[name]; both return two empty lists when the start has no edges
\* or the name is unknown.
NeighbourhoodExcludesSelf ==
    /\ query.kind = "id" =>
         /\ query.arg \notin ReturnedIds(query.callers) \cup ReturnedIds(query.callees)
         /\ (Get(calls_map, query.arg, {}) = {} /\ Get(callers_map, query.arg, {}) = {})
               => query.callers = <<>> /\ query.callees = <<>>
    /\ query.kind = "name" =>
         LET ids == Get(name_to_ids, query.arg, {})
         IN  /\ (ReturnedIds(query.callers) \cup ReturnedIds(query.callees)) \cap ids = {}
             /\ query.arg \notin DOMAIN name_to_ids
                   => query.callers = <<>> /\ query.callees = <<>>
             /\ (\A f \in ids : Get(calls_map, f, {}) = {} /\ Get(callers_map, f, {}) = {})
                   => query.callers = <<>> /\ query.callees = <<>>

\* C10 witness: a query by a name that two functions share, one of which
\* calls the other.
SameNameCallQueried ==
    /\ query.kind = "name"
    /\ \E f, g \in Get(name_to_ids, query.arg, {}) :
         f # g /\ g \in Get(calls_map, f, {})

-----------------------------------------------------------------------------
(* Properties of _render_tree (specifications RenderSpec, LiveRenderSpec) *)

Rendered == pc = "done"

\* C2: if f is in calls(f), the finished render of callees from {f} emits f
\* with the cycle annotation at depth 0, and that line is the first line of
\* out that shows f.
SelfLoopCycleAtDepthZero ==
    \A f \in FuncIds :
        (Rendered /\ direction = "callees" /\ start_ids = {f}
                  /\ f \in Get(calls_map, f, {}))
            => \E i \in 1..Len(out) :
                  /\ out[i].fid = f /\ out[i].depth = 0 /\ out[i].ann = "cycle"
                  /\ \A j \in 1..(i - 1) : out[j].fid # f

\* C3: with A calling exactly {B} and B calling exactly {A}, the render of
\* callees from {A} is B at depth 0, then A at depth 1 with the cycle
\* annotation, and nothing else (the same for every max_depth from 2 on, the
\* scenario's 5 included); and a line that shows its own starting id always
\* carries the cycle annotation.
MutualCycleBackToStart ==
    Rendered =>
        /\ (/\ calls_map = [x \in {"func_a", "func_b"} |->
                               IF x = "func_a" THEN {"func_b"} ELSE {"func_a"}]
            /\ direction = "callees" /\ start_ids = {"func_a"} /\ max_depth >= 2)
              => /\ Len(out) = 2
                 /\ out[1].fid = "func_b" /\ out[1].depth = 0 /\ out[1].ann = ""
                 /\ out[2].fid = "func_a" /\ out[2].depth = 1 /\ out[2].ann = "cycle"
        /\ \A i \in 1..Len(out) :
              (out[i].kind = "node" /\ out[i].fid = out[i].root) => out[i].ann = "cycle"

\* C4: for max_children = K, every node that has M > K neighbours, a starting
\* id included, has under it exactly its first K neighbours in sorted order
\* and then one summary line with the count M - K.
FanOutBound ==
    Rendered =>
        /\ \A r \in start_ids :
              Len(Children(r, direction)) > max_children
                  => CappedAt(LinesUnder(r, <<>>), Children(r, direction))
        /\ \A i \in 1..Len(out) :
              (/\ out[i].kind = "node" /\ out[i].ann = ""
               /\ Len(Children(out[i].fid, direction)) > max_children)
                  => CappedAt(LinesUnder(out[i].root, Append(out[i].path, out[i].fid)),
                              Children(out[i].fid, direction))

\* C5 as stated: every node line shows a node that a path of at most
\* max_depth edges reaches from some starting id.
DepthBoundInEdges ==
    \A i \in 1..Len(out) :
        out[i].kind = "node"
            => \E s \in start_ids, n \in 0..max_depth : out[i].fid \in WalkEnds(s, n)

\* C5 amended: every line is at indentation depth at most max_depth; a node
\* line at depth d shows the end of the d + 1 edge path from its starting id
\* that the traversal followed (so at most max_depth + 1 edges), and a node
\* line at depth max_depth is a cycle or depth-truncated leaf.
DepthBoundInLevels ==
    \A i \in 1..Len(out) :
        /\ out[i].depth <= max_depth
        /\ out[i].kind = "node" =>
              /\ Len(out[i].path) = out[i].depth
              /\ IsPath(<<out[i].root>> \o out[i].path \o <<out[i].fid>>)
              /\ out[i].fid \in WalkEnds(out[i].root, out[i].depth + 1)
              /\ out[i].depth = max_depth => out[i].ann \in {"cycle", "depth"}

\* C5 witness: a finished render with a depth-truncated line at depth
\* max_depth >= 1 whose node no shorter path reaches.
DeepestLineEmitted ==
    /\ Rendered
    /\ max_depth >= 1
    /\ \E i \in 1..Len(out) :
         /\ out[i].ann = "depth" /\ out[i].depth = max_depth
         /\ \A s \in start_ids, n \in 0..max_depth : out[i].fid \notin WalkEnds(s, n)

\* C6 as stated: whenever the graph has a path (no id repeated) of more than
\* max_depth edges leaving a starting id, the finished render has a
\* depth-truncated line, whatever max_children is.
TruncationReported ==
    (Rendered /\ LongPath) => DepthLineEmitted

\* C6 amended: the same, provided no id has more than max_children
\* neighbours in the direction of the render.
TruncationReportedUncapped ==
    (Rendered /\ LongPath /\ \A v \in FuncIds : Cardinality(Nbrs(v)) <= max_children)
        => DepthLineEmitted

\* C6 witness: a finished render of a graph with such a path in which a node
\* with two neighbours was expanded in full.
LongPathRendered ==
    /\ Rendered /\ LongPath /\ max_depth >= 1
    /\ \A v \in FuncIds : Cardinality(Nbrs(v)) <= max_children
    /\ \E v \in FuncIds : Cardinality(Nbrs(v)) = 2
    /\ DepthLineEmitted

\* C7: every started render returns.
RenderTerminates == (pc = "render") ~> (pc = "done")

\* C7 witness: a render that met a self-loop and a longer cycle has returned.
CyclicRenderReturned ==
    /\ Rendered
    /\ \E f \in FuncIds : f \in Get(calls_map, f, {})
    /\ \E i \in 1..Len(out) : out[i].ann = "cycle" /\ out[i].depth >= 2

\* a line of out emitted under the expansion of the visit that line l records
Beneath(l, m) ==
    /\ m.root = l.root
    /\ Len(m.path) > Len(l.path)
    /\ SubSeq(m.path, 1, Len(l.path) + 1) = Append(l.path, l.fid)

\* C11: a visit of a node that is already on the path stack at a depth
\* >= max_depth emits the cycle annotation, not the depth-truncation one;
\* it emits exactly one line and the node is not expanded.
CycleBeforeDepthCutoff ==
    \A i \in 1..Len(out) :
        (/\ out[i].kind = "node"
         /\ out[i].fid \in Range(out[i].path)
         /\ out[i].depth >= max_depth)
            => /\ out[i].ann = "cycle"
               /\ \A j \in 1..Len(out) :
                     /\ (j # i /\ out[j].kind = "node" /\ out[j].root = out[i].root
                              /\ out[j].path = out[i].path) => out[j].fid # out[i].fid
                     /\ ~Beneath(out[i], out[j])

\* C11 witness: a finished render in which a back-edge was met exactly at
\* depth max_depth.
BackEdgeAtDepthBoundary ==
    /\ Rendered
    /\ max_depth >= 1
    /\ \E i \in 1..Len(out) :
         /\ out[i].kind = "node" /\ out[i].fid \in Range(out[i].path)
         /\ out[i].depth = max_depth /\ out[i].ann = "cycle"

-----------------------------------------------------------------------------
(* Properties of the first pass (specification Spec) *)

\* the input element i is an object tagged as a function with a non-empty id
FuncWithId(i) ==
    data[i].isdict /\ data[i].type = "func" /\ data[i].id \notin {None, EmptyId}

\* the ids of the elements of the input that satisfy P
IdsWhere(P(_)) == {data[i].id : i \in {k \in 1..Len(data) : P(k)}}

\* C12 as stated: every input entry tagged as a function with a non-empty id
\* becomes a key of id_to_entry and, if it has a name, a member of
\* name_to_ids[name]; no other entry does.
EveryFunctionWithIdKept ==
    Loaded =>
        /\ \A i \in 1..Len(data) :
              FuncWithId(i) =>
                  /\ data[i].id \in DOMAIN id_to_entry
                  /\ Truthy(data[i].name) => data[i].id \in Get(name_to_ids, data[i].name, {})
        /\ DOMAIN id_to_entry = IdsWhere(FuncWithId)

\* the same, and the id starts with "func_"
FuncWithPrefixedId(i) == FuncWithId(i) /\ StartsWithFunc(data[i].id)

\* C12 amended: every input entry tagged as a function whose non-empty id
\* starts with "func_" becomes a key of id_to_entry and, if it has a name, a
\* member of name_to_ids[name]; id_to_entry and name_to_ids hold nothing else.
PrefixedFunctionsKept ==
    Loaded =>
        /\ \A i \in 1..Len(data) :
              FuncWithPrefixedId(i) =>
                  /\ data[i].id \in DOMAIN id_to_entry
                  /\ Truthy(data[i].name) => data[i].id \in Get(name_to_ids, data[i].name, {})
        /\ DOMAIN id_to_entry = IdsWhere(FuncWithPrefixedId)
        /\ \A n \in DOMAIN name_to_ids :
              name_to_ids[n] =
                  IdsWhere(LAMBDA i : FuncWithPrefixedId(i) /\ data[i].name = n)

\* C12 witness: a loaded list with a kept function, a function whose id
\* lacks the prefix, and a record of another kind that carries a good id.
MixedListLoaded ==
    /\ pc = "loaded"
    /\ \E i, j, k \in 1..Len(data) :
         /\ FuncWithPrefixedId(i) /\ Truthy(data[i].name)
         /\ FuncWithId(j) /\ ~StartsWithFunc(data[j].id)
         /\ data[k].isdict /\ data[k].type # "func" /\ data[k].id \notin DOMAIN id_to_entry

-----------------------------------------------------------------------------
(* Properties of the path stack (specification RenderSpec) *)

\* no element of the sequence occurs twice
Distinct(seq) == \A i, j \in 1..Len(seq) : i # j => seq[i] # seq[j]

\* the node line the dfs call of a loop frame appended when it was entered:
\* the latest plain node line at the frame's depth
EntryLine(o, frame) ==
    LET at == {i \in 1..Len(o) :
                  o[i].kind = "node" /\ o[i].ann = "" /\ o[i].depth = frame.depth}
    IN  o[CHOOSE i \in at : \A j \in at : j <= i]

\* every dfs call so far was entered with a stack of depth pairwise distinct
\* elements that, followed by fid, is a path of the graph; the stack is the
\* chain of the calls that are inside their loop
StackAtEntry ==
    /\ \A i \in 1..Len(out) :
          out[i].kind = "node" =>
              /\ Len(out[i].path) = out[i].depth
              /\ Distinct(out[i].path)
              /\ IsPath(out[i].path \o <<out[i].fid>>)
    /\ Distinct(stack)
    /\ Len(stack) = Len(frames)
    /\ \A k \in 1..Len(frames) : stack[k] = frames[k].fid /\ frames[k].depth = k - 1

\* a step in which a dfs call returns leaves the stack as that call found it:
\* a call that returns at once (cycle, depth cutoff, no neighbours) does not
\* touch it, a call that pushed has popped; a call that enters its loop has
\* pushed its own id on the stack it found
StackRestored ==
    /\ (Len(out') = Len(out) + 1 /\ out'[Len(out')].kind = "node")
          => IF Len(frames') > Len(frames)
             THEN stack' = Append(out'[Len(out')].path, out'[Len(out')].fid)
             ELSE stack' = out'[Len(out')].path
    /\ Len(frames') < Len(frames)
          => /\ EntryLine(out, Top).fid = Top.fid
             /\ stack' = EntryLine(out, Top).path

\* C13: at every entry to dfs(fid, depth, stack) the stack has exactly depth
\* elements, they are pairwise distinct and, followed by fid, form a path of
\* the graph in the traversal direction; when the call returns the stack is
\* what it was on entry.
PathStackDiscipline == []StackAtEntry /\ [][StackRestored]_vars

\* C13 witness: a finished render in which a fan-out cutoff popped the stack
\* and one node was expanded in two branches with different paths.
NodeInTwoBranches ==
    /\ Rendered
    /\ \E i \in 1..Len(out) : out[i].kind = "more"
    /\ \E i, j \in 1..Len(out) :
         /\ out[i].kind = "node" /\ out[j].kind = "node"
         /\ out[i].fid = out[j].fid /\ out[i].root = out[j].root
         /\ out[i].ann = "" /\ out[j].ann = ""
         /\ out[i].path # out[j].path

====
